---- MODULE Spec2Model ----
(***************************************************************************)
(* A model of two helpers of snippets.py:                                  *)
(*   retry(fn, retries, delay, exceptions)   (lines 82-89)                 *)
(*   atomic_write(path, text)                (lines 71-75)                 *)
(* retry is modelled statement by statement for one call; the operation fn *)
(* and time.sleep are the environment.  atomic_write is modelled as two    *)
(* concurrent callers and one reader over a small file system.             *)
(***************************************************************************)
EXTENDS Integers, Sequences, FiniteSets, TLC

VARIABLES
    \* ---- retry: the arguments of the call
    retries,      \* the retries argument
    delay,        \* the delay argument
    exceptions,   \* the exceptions argument: a set of exception classes
    \* ---- retry: the frame of the call
    pc,           \* the statement the call is at
    i,            \* the loop variable of  for i in range(retries)
    exc,          \* the exception being handled (NoExc when there is none)
    result,       \* the value the call returned (Unset before it returns)
    propagated,   \* the exception that left the call (NoExc when none did)
    \* ---- retry: what the environment saw (history, read by no action)
    calls,        \* the number of invocations of fn
    sleeps,       \* the number of calls of time.sleep
    slept,        \* the sum of the durations passed to time.sleep
    outcomes,     \* the outcome of each finished invocation of fn, in order
    trace,        \* the events of the call, in order
    \* ---- atomic_write: the file system and the callers
    dir,          \* directory: file name -> inode (0: no such file)
    data,         \* inode -> content, a sequence of blocks
    nextInode,    \* the next inode to allocate
    wpath,        \* writer -> the path argument
    wtext,        \* writer -> the text argument
    wpc,          \* writer -> the statement it is at
    wfd,          \* writer -> the inode its open file refers to (0: none)
    woff,         \* writer -> the offset of its open file
    observed      \* <<path, content>> of the last read of a target by a reader

retryVars == <<retries, delay, exceptions, pc, i, exc, result, propagated,
               calls, sleeps, slept, outcomes, trace>>
awVars == <<dir, data, nextInode, wpath, wtext, wpc, wfd, woff, observed>>
vars == <<retryVars, awVars>>

\* ------------------------------------------------------------------ bounds
MaxRetries == 3
MaxDelay == 1
MaxLen == 2

\* ------------------------------------------------------- Python exceptions
\* The direct base class of each exception class used here.
Parent(k) ==
    CASE k = "ValueError" -> "Exception"
      [] k = "OSError" -> "Exception"
      [] k = "FileNotFoundError" -> "OSError"
      [] k = "Exception" -> "BaseException"
      [] k = "KeyboardInterrupt" -> "BaseException"
      [] OTHER -> "object"

RECURSIVE IsSubclass(_, _)
IsSubclass(k, c) ==
    IF k = c THEN TRUE
    ELSE IF k = "object" THEN FALSE
    ELSE IsSubclass(Parent(k), c)

\* except exceptions:  matches an exception that is an instance of one of
\* the classes of the tuple.
Matches(e, classes) == \E c \in classes : IsSubclass(e.kind, c)

\* The classes fn raises, the messages it raises them with, and the values
\* it returns.
RaisedKinds == {"ValueError", "FileNotFoundError", "KeyboardInterrupt"}
Messages == {"m1", "m2"}
Values == {"42", "None"}
Failures == [kind : RaisedKinds, msg : Messages]

\* The exceptions arguments tried; {"Exception"} is the default.
ExceptionTuples == {{"Exception"}, {"OSError"}, {"ValueError", "OSError"}, {}}

NoExc == [kind |-> "none", msg |-> "none"]
Unset == "unset"

Ok(v) == [ok |-> TRUE, val |-> v, exc |-> NoExc]
Fail(e) == [ok |-> FALSE, val |-> Unset, exc |-> e]

\* ------------------------------------------------------------------ retry
InitRetryFrame ==
    /\ pc = "for"
    /\ i = 0
    /\ exc = NoExc
    /\ result = Unset
    /\ propagated = NoExc
    /\ calls = 0
    /\ sleeps = 0
    /\ slept = 0
    /\ outcomes = <<>>
    /\ trace = <<>>

\* The arguments of the call: retries includes the values below 1 that
\* range() accepts; delay is a duration time.sleep accepts (not negative).
InitRetry ==
    /\ retries \in (0 - 1)..MaxRetries
    /\ delay \in 0..MaxDelay
    /\ exceptions \in ExceptionTuples
    /\ InitRetryFrame

\* A mutant of ForIter: range(retries - 1).
ForIterOneLess ==
    /\ pc = "for"
    /\ IF i < retries - 1
         THEN pc' = "call" /\ result' = result
         ELSE pc' = "returned" /\ result' = "None"
    /\ UNCHANGED <<awVars, retries, delay, exceptions, i, exc, propagated,
                   calls, sleeps, slept, outcomes, trace>>

\* for i in range(retries):  the next index, or the end of the loop, after
\* which the function falls off its end and returns None.
ForIter ==
    /\ pc = "for"
    /\ IF i < retries
         THEN pc' = "call" /\ result' = result
         ELSE pc' = "returned" /\ result' = "None"
    /\ UNCHANGED <<awVars, retries, delay, exceptions, i, exc, propagated,
                   calls, sleeps, slept, outcomes, trace>>

\* fn() is invoked.
CallFn ==
    /\ pc = "call"
    /\ pc' = "running"
    /\ calls' = calls + 1
    /\ trace' = Append(trace, "call")
    /\ UNCHANGED <<awVars, retries, delay, exceptions, i, exc, result, propagated,
                   sleeps, slept, outcomes>>

\* A mutant of FnReturns: fn() without the return, so the loop goes on.
FnReturnsDropped(v) ==
    /\ pc = "running"
    /\ outcomes' = Append(outcomes, Ok(v))
    /\ trace' = Append(trace, "ok")
    /\ pc' = "for"
    /\ i' = i + 1
    /\ UNCHANGED <<awVars, retries, delay, exceptions, exc, result, propagated,
                   calls, sleeps, slept>>

\* return fn():  fn returns v and retry returns it.
FnReturns(v) ==
    /\ pc = "running"
    /\ outcomes' = Append(outcomes, Ok(v))
    /\ trace' = Append(trace, "ok")
    /\ pc' = "returned"
    /\ result' = v
    /\ UNCHANGED <<awVars, retries, delay, exceptions, i, exc, propagated,
                   calls, sleeps, slept>>

\* fn raises e inside the try block.
FnRaises(e) ==
    /\ pc = "running"
    /\ outcomes' = Append(outcomes, Fail(e))
    /\ trace' = Append(trace, "fail")
    /\ exc' = e
    /\ pc' = "except"
    /\ UNCHANGED <<awVars, retries, delay, exceptions, i, result, propagated,
                   calls, sleeps, slept>>

\* A mutant of Except: a bare  except:  clause, which catches everything.
ExceptBare ==
    /\ pc = "except"
    /\ pc' = "handler"
    /\ UNCHANGED <<awVars, retries, delay, exceptions, i, exc, result,
                   propagated, calls, sleeps, slept, outcomes, trace>>

\* except exceptions:  a matching exception enters the handler, any other
\* leaves the function.
Except ==
    /\ pc = "except"
    /\ IF Matches(exc, exceptions)
         THEN pc' = "handler" /\ propagated' = propagated
         ELSE pc' = "raised" /\ propagated' = exc
    /\ UNCHANGED <<awVars, retries, delay, exceptions, i, exc, result,
                   calls, sleeps, slept, outcomes, trace>>

\* A mutant of Handler: the test  i == retries  (off by one).
HandlerOffByOne ==
    /\ pc = "handler"
    /\ IF i = retries
         THEN /\ pc' = "raised"
              /\ propagated' = exc
              /\ UNCHANGED <<sleeps, trace>>
         ELSE /\ pc' = "sleep"
              /\ sleeps' = sleeps + 1
              /\ trace' = Append(trace, "sleep")
              /\ propagated' = propagated
    /\ UNCHANGED <<awVars, retries, delay, exceptions, i, exc, result,
                   calls, slept, outcomes>>

\* A mutant of Handler: on exhaustion a new error is raised in place of the
\* one being handled.
HandlerWraps ==
    /\ pc = "handler"
    /\ IF i = retries - 1
         THEN /\ pc' = "raised"
              /\ propagated' = [kind |-> "RuntimeError", msg |-> exc.msg]
              /\ UNCHANGED <<sleeps, trace>>
         ELSE /\ pc' = "sleep"
              /\ sleeps' = sleeps + 1
              /\ trace' = Append(trace, "sleep")
              /\ propagated' = propagated
    /\ UNCHANGED <<awVars, retries, delay, exceptions, i, exc, result,
                   calls, slept, outcomes>>

\* A mutant of Handler: on exhaustion the error is swallowed (return in
\* place of raise).
HandlerSwallows ==
    /\ pc = "handler"
    /\ IF i = retries - 1
         THEN /\ pc' = "returned"
              /\ result' = "None"
              /\ UNCHANGED <<sleeps, trace>>
         ELSE /\ pc' = "sleep"
              /\ sleeps' = sleeps + 1
              /\ trace' = Append(trace, "sleep")
              /\ result' = result
    /\ UNCHANGED <<awVars, retries, delay, exceptions, i, exc, propagated,
                   calls, slept, outcomes>>

\* A mutant of Handler: no time.sleep before the next attempt.
HandlerNoSleep ==
    /\ pc = "handler"
    /\ IF i = retries - 1
         THEN /\ pc' = "raised"
              /\ propagated' = exc
              /\ i' = i
         ELSE /\ pc' = "for"
              /\ i' = i + 1
              /\ propagated' = propagated
    /\ UNCHANGED <<awVars, retries, delay, exceptions, exc, result,
                   calls, sleeps, slept, outcomes, trace>>

\* if i == retries - 1: raise  re-raises the exception being handled;
\* otherwise time.sleep(delay) is called.
Handler ==
    /\ pc = "handler"
    /\ IF i = retries - 1
         THEN /\ pc' = "raised"
              /\ propagated' = exc
              /\ UNCHANGED <<sleeps, trace>>
         ELSE /\ pc' = "sleep"
              /\ sleeps' = sleeps + 1
              /\ trace' = Append(trace, "sleep")
              /\ propagated' = propagated
    /\ UNCHANGED <<awVars, retries, delay, exceptions, i, exc, result,
                   calls, slept, outcomes>>

\* A mutant of SleepDone: the loop variable is not advanced.
SleepDoneStuck ==
    /\ pc = "sleep"
    /\ slept' = slept + delay
    /\ trace' = Append(trace, "wake")
    /\ exc' = NoExc
    /\ pc' = "for"
    /\ UNCHANGED <<awVars, retries, delay, exceptions, i, result, propagated,
                   calls, sleeps, outcomes>>

\* time.sleep(delay) returns; the handler ends and the loop takes its next
\* index.
SleepDone ==
    /\ pc = "sleep"
    /\ slept' = slept + delay
    /\ trace' = Append(trace, "wake")
    /\ exc' = NoExc
    /\ i' = i + 1
    /\ pc' = "for"
    /\ UNCHANGED <<awVars, retries, delay, exceptions, result, propagated,
                   calls, sleeps, outcomes>>

Next ==
    \/ ForIter
    \/ CallFn
    \/ \E v \in Values : FnReturns(v)
    \/ \E e \in Failures : FnRaises(e)
    \/ Except
    \/ Handler
    \/ SleepDone

Terminal == pc \in {"returned", "raised"}

\* ----------------------------------------------------------- atomic_write
Writers == {"w1", "w2"}

\* A path is <<stem, suffix>>; Path.with_suffix replaces the suffix.
with_suffix(p, s) == <<p[1], s>>

\* The path arguments tried, and every file name the calls can touch.
Paths == {<<"a", ".txt">>, <<"a", ".json">>}
Names == Paths \cup {with_suffix(p, ".tmp") : p \in Paths}

\* A text is written in blocks, one write() each.
Blocks == {"x", "y"}
Texts == UNION {[1..n -> Blocks] : n \in 1..MaxLen}
OldText == <<"o">>
Absent == <<"absent">>
NoPath == <<"", "">>

\* Inodes: one per path that exists at the start, one per open() that
\* creates the temporary file.
Inodes == 1..(Cardinality(Paths) + Cardinality(Writers))
PathInode(p) == IF p = <<"a", ".txt">> THEN 1 ELSE 2

\* write() of block b at offset off of a file holding s: a write past the
\* end leaves a hole that reads as zero blocks.
RECURSIVE WriteAt(_, _, _)
WriteAt(s, off, b) ==
    IF off < Len(s) THEN [s EXCEPT ![off + 1] = b]
    ELSE IF off = Len(s) THEN Append(s, b)
    ELSE WriteAt(Append(s, "0"), off, b)

InitAW ==
    /\ \E present \in SUBSET Paths :
          /\ dir = [n \in Names |->
                      IF n \in present THEN PathInode(n) ELSE 0]
          /\ data = [k \in Inodes |->
                      IF \E p \in present : PathInode(p) = k
                        THEN OldText ELSE <<>>]
    /\ nextInode = Cardinality(Paths) + 1
    /\ wpath \in [Writers -> Paths]
    /\ wtext \in [Writers -> Texts]
    /\ wpc = [w \in Writers |-> "open"]
    /\ wfd = [w \in Writers |-> 0]
    /\ woff = [w \in Writers |-> 0]
    /\ observed = <<NoPath, Absent>>

tmp(w) == with_suffix(wpath[w], ".tmp")

\* tmp.write_text(text), its open(tmp, "w"): the file is created, or the
\* existing one is truncated.
OpenTmp(w) ==
    /\ wpc[w] = "open"
    /\ IF dir[tmp(w)] = 0
         THEN /\ dir' = [dir EXCEPT ![tmp(w)] = nextInode]
              /\ data' = [data EXCEPT ![nextInode] = <<>>]
              /\ wfd' = [wfd EXCEPT ![w] = nextInode]
              /\ nextInode' = nextInode + 1
         ELSE /\ data' = [data EXCEPT ![dir[tmp(w)]] = <<>>]
              /\ wfd' = [wfd EXCEPT ![w] = dir[tmp(w)]]
              /\ UNCHANGED <<retryVars, dir, nextInode>>
    /\ woff' = [woff EXCEPT ![w] = 0]
    /\ wpc' = [wpc EXCEPT ![w] = "write"]
    /\ UNCHANGED <<retryVars, wpath, wtext, observed>>

\* tmp.write_text(text), one write() of the next block at the file offset.
WriteBlock(w) ==
    /\ wpc[w] = "write"
    /\ woff[w] < Len(wtext[w])
    /\ data' = [data EXCEPT
                  ![wfd[w]] = WriteAt(@, woff[w], wtext[w][woff[w] + 1])]
    /\ woff' = [woff EXCEPT ![w] = @ + 1]
    /\ UNCHANGED <<retryVars, dir, nextInode, wpath, wtext, wpc, wfd, observed>>

\* tmp.write_text(text), its close() once the text is written.
CloseTmp(w) ==
    /\ wpc[w] = "write"
    /\ woff[w] = Len(wtext[w])
    /\ wfd' = [wfd EXCEPT ![w] = 0]
    /\ wpc' = [wpc EXCEPT ![w] = "replace"]
    /\ UNCHANGED <<retryVars, dir, data, nextInode, wpath, wtext, woff, observed>>

\* tmp.replace(path): rename(tmp, path), FileNotFoundError when tmp is gone.
ReplaceTmp(w) ==
    /\ wpc[w] = "replace"
    /\ IF dir[tmp(w)] = 0
         THEN /\ wpc' = [wpc EXCEPT ![w] = "error"]
              /\ dir' = dir
         ELSE /\ wpc' = [wpc EXCEPT ![w] = "done"]
              /\ dir' = [dir EXCEPT ![wpath[w]] = dir[tmp(w)],
                                    ![tmp(w)] = 0]
    /\ UNCHANGED <<retryVars, data, nextInode, wpath, wtext, wfd, woff, observed>>

\* Another thread reads the target p (open, read, close taken as one step).
ReadTarget(p) ==
    /\ observed' = <<p, IF dir[p] = 0 THEN Absent ELSE data[dir[p]]>>
    /\ UNCHANGED <<retryVars, dir, data, nextInode, wpath, wtext, wpc, wfd, woff>>

NextAW ==
    \/ \E w \in Writers : OpenTmp(w)
    \/ \E w \in Writers : WriteBlock(w)
    \/ \E w \in Writers : CloseTmp(w)
    \/ \E w \in Writers : ReplaceTmp(w)
    \/ \E p \in Paths : ReadTarget(p)

\* --------------------------------------------------------- specifications
\* The part not under study stays idle.
IdleAW ==
    /\ dir = [n \in Names |-> 0]
    /\ data = [k \in Inodes |-> <<>>]
    /\ nextInode = Cardinality(Paths) + 1
    /\ wpath = [w \in Writers |-> <<"a", ".txt">>]
    /\ wtext = [w \in Writers |-> <<"x">>]
    /\ wpc = [w \in Writers |-> "idle"]
    /\ wfd = [w \in Writers |-> 0]
    /\ woff = [w \in Writers |-> 0]
    /\ observed = <<NoPath, Absent>>

IdleRetry ==
    /\ retries = 0
    /\ delay = 0
    /\ exceptions = {}
    /\ InitRetryFrame

Init == InitRetry /\ IdleAW

InitAWOnly == IdleRetry /\ InitAW

\* One call of retry.
Spec == Init /\ [][Next]_vars

\* One call of retry in which fn and time.sleep return and the interpreter
\* keeps running the call.
FairSpec == Spec /\ WF_vars(Next)

\* Two concurrent calls of atomic_write and a reader.
SpecAW == InitAWOnly /\ [][NextAW]_vars

\* ------------------------------------------------------ claims about retry
Last(s) == s[Len(s)]

\* An outcome that is a failure of a kind the except clause matches, and
\* one it does not match.
RetryableFail(o) == ~o.ok /\ Matches(o.exc, exceptions)
NonRetryableFail(o) == ~o.ok /\ ~Matches(o.exc, exceptions)

\* The number of invocations of fn begun within the first p events.
AttemptAt(p) == Cardinality({q \in 1..p : trace[q] = "call"})

\* C1: with retries = n >= 1 and an operation whose every invocation fails
\* with a retryable kind, fn is never invoked more than n times, and the
\* call ends only by propagating, after exactly n invocations, the failure
\* of the n-th invocation.
C1_AlwaysFailing ==
    (retries >= 1 /\ \A j \in 1..Len(outcomes) : RetryableFail(outcomes[j]))
       => /\ calls <= retries
          /\ Terminal => /\ pc = "raised"
                         /\ calls = retries
                         /\ Len(outcomes) = retries
                         /\ propagated = outcomes[retries].exc

\* C1 witness: three retryable failures, the last differing from the first,
\* and the last one propagated.
C1_Witness ==
    /\ pc = "raised"
    /\ retries = 3
    /\ calls = 3
    /\ \A j \in 1..Len(outcomes) : RetryableFail(outcomes[j])
    /\ outcomes[1].exc # outcomes[3].exc
    /\ propagated = outcomes[3].exc

\* C2: when the k-th invocation succeeds after k-1 retryable failures
\* (1 <= k <= n), the call has returned that invocation's value, with exactly
\* k invocations, k-1 sleeps of delay each, nothing propagated, and the
\* success is the last event: no attempt and no sleep follows it.
C2_SucceedsAtK ==
    \A k \in 1..Len(outcomes) :
        (outcomes[k].ok /\ \A j \in 1..(k - 1) : RetryableFail(outcomes[j]))
           => /\ k = Len(outcomes)
              /\ k <= retries
              /\ pc = "returned"
              /\ result = outcomes[k].val
              /\ calls = k
              /\ sleeps = k - 1
              /\ slept = (k - 1) * delay
              /\ propagated = NoExc
              /\ Last(trace) = "ok"

\* C2 witness: two retryable failures, then 42 on the third invocation.
C2_Witness ==
    /\ pc = "returned"
    /\ result = "42"
    /\ calls = 3
    /\ sleeps = 2
    /\ delay = 1
    /\ RetryableFail(outcomes[1])
    /\ RetryableFail(outcomes[2])

\* C3: a failure of a kind the except clause does not match, at whatever
\* attempt, is the last thing the operation does in the call: no invocation
\* and no sleep follows it (the sleeps are those of the earlier retryable
\* failures), and it is the failure propagated.
C3_NonRetryablePropagates ==
    \A j \in 1..Len(outcomes) :
        NonRetryableFail(outcomes[j])
           => /\ j = Len(outcomes)
              /\ calls = j
              /\ sleeps = j - 1
              /\ Last(trace) = "fail"
              /\ pc \in {"except", "raised"}
              /\ pc = "raised" => propagated = outcomes[j].exc

\* C3 witness: a non-retryable failure on the second of three attempts.
C3_Witness ==
    /\ pc = "raised"
    /\ retries = 3
    /\ calls = 2
    /\ sleeps = 1
    /\ RetryableFail(outcomes[1])
    /\ NonRetryableFail(outcomes[2])

\* C4: a call with retries < 1 never returns normally: it ends in an error
\* and fn is not invoked.
C4_RejectsEagerly ==
    retries < 1 => /\ calls = 0
                   /\ pc # "returned"
                   /\ Terminal => pc = "raised"

\* What a call has produced: nothing before its end, then either a value
\* that an invocation of fn returned or a propagated failure, never both,
\* after between 1 and retries invocations.
OneOutcome ==
    /\ ~Terminal => (result = Unset /\ propagated = NoExc)
    /\ pc = "returned" => /\ propagated = NoExc
                          /\ calls >= 1
                          /\ Len(outcomes) = calls
                          /\ outcomes[calls].ok
                          /\ result = outcomes[calls].val
    /\ pc = "raised" => (result = Unset /\ propagated # NoExc)
    /\ Terminal => (1 <= calls /\ calls <= retries)

\* C5 as stated: every call, whatever its configuration, ends in exactly one
\* of a returned result of an invocation and a propagated failure, after
\* between 1 and retries invocations.
C5_AnyConfiguration == OneOutcome

\* C5 amended: the same for every call with retries >= 1.
C5_OneOutcome == retries >= 1 => OneOutcome

\* C5 witness: both ends, here the exhaustion after the full budget.
C5_Witness ==
    /\ pc = "raised"
    /\ retries = 3
    /\ calls = 3
    /\ propagated # NoExc
    /\ result = Unset

\* time.sleep is called only after a retryable failure of an attempt that is
\* not the last of the budget, the next attempt follows it, and the call
\* does not end on it.
SleepOnlyBetween ==
    /\ \A p \in 1..Len(trace) :
          trace[p] = "sleep"
             => /\ p > 1
                /\ trace[p - 1] = "fail"
                /\ AttemptAt(p) < retries
                /\ AttemptAt(p) <= Len(outcomes)
                /\ RetryableFail(outcomes[AttemptAt(p)])
    /\ \A p \in 1..(Len(trace) - 1) :
          trace[p] = "wake" => trace[p + 1] = "call"
    /\ (Terminal /\ trace # <<>>) => Last(trace) \in {"ok", "fail"}
    /\ sleeps = Cardinality({p \in 1..Len(trace) : trace[p] = "sleep"})

\* C6 as stated: sleeps lie only between a retryable failure and the next
\* attempt, and every finished call made one sleep fewer than attempts.
C6_EveryExecution ==
    /\ SleepOnlyBetween
    /\ Terminal => sleeps = calls - 1

\* C6 amended: the same, the count for every call that made an attempt.
C6_SleepsBetweenAttempts ==
    /\ SleepOnlyBetween
    /\ (Terminal /\ calls >= 1) => sleeps = calls - 1

\* C6 witness: the budget of three is exhausted after two sleeps, and the
\* call ends on the third failure.
C6_Witness ==
    /\ pc = "raised"
    /\ retries = 3
    /\ calls = 3
    /\ sleeps = 2
    /\ RetryableFail(outcomes[3])
    /\ Last(trace) = "fail"

\* C7: a failure that leaves the call is the failure the last invocation of
\* fn raised, kind and message; before that nothing has left the call.
C7_PropagatesLastVerbatim ==
    /\ pc = "raised" => /\ Len(outcomes) >= 1
                        /\ ~Last(outcomes).ok
                        /\ propagated = Last(outcomes).exc
    /\ pc # "raised" => propagated = NoExc

\* C7 witness: exhaustion, with a first failure of another kind and message
\* than the one propagated.
C7_Witness ==
    /\ pc = "raised"
    /\ calls = retries
    /\ calls >= 2
    /\ RetryableFail(Last(outcomes))
    /\ outcomes[1].exc.kind # propagated.kind
    /\ outcomes[1].exc.msg # propagated.msg

\* C8: the events of a call alternate: an attempt starts first or right
\* after a sleep has ended, ends before anything else happens, a sleep starts
\* right after a failure and ends before anything else happens; so at most
\* one attempt is in progress, and one is exactly while fn runs.
C8_Alternation ==
    /\ \A p \in 1..Len(trace) :
          /\ trace[p] = "call" => (p = 1 \/ trace[p - 1] = "wake")
          /\ trace[p] \in {"ok", "fail"} => (p > 1 /\ trace[p - 1] = "call")
          /\ trace[p] = "sleep" => (p > 1 /\ trace[p - 1] = "fail")
          /\ trace[p] = "wake" => (p > 1 /\ trace[p - 1] = "sleep")
    /\ calls - Len(outcomes) = (IF pc = "running" THEN 1 ELSE 0)
    /\ calls = AttemptAt(Len(trace))

\* C8 witness: attempt, sleep, attempt, sleep, attempt.
C8_Witness ==
    trace = <<"call", "fail", "sleep", "wake",
              "call", "fail", "sleep", "wake", "call", "ok">>

\* C9: a call with retries >= 1 reaches "returned" or "raised", and no call
\* invokes fn more than retries times.
C9_Terminates ==
    /\ [](calls <= (IF retries >= 1 THEN retries ELSE 0))
    /\ (retries >= 1) ~> Terminal

\* C9 witness: the end after the whole budget of three was used.
C9_Witness ==
    /\ Terminal
    /\ retries = 3
    /\ calls = 3
    /\ i = 2

\* ----------------------------------------------- claims about atomic_write
AllFinished == \A w \in Writers : wpc[w] \in {"done", "error"}
TextsFor(p) == {wtext[w] : w \in {x \in Writers : wpath[x] = p}}

\* C10: under every interleaving of concurrent atomic_write calls no call
\* fails, each target afterwards holds the whole text of one of its callers,
\* and a reader of a target sees its old state or such a whole text.
C10_ConcurrentWritesAtomic ==
    /\ \A w \in Writers : wpc[w] # "error"
    /\ AllFinished =>
          \A w \in Writers :
              /\ dir[wpath[w]] # 0
              /\ data[dir[wpath[w]]] \in TextsFor(wpath[w])
    /\ observed[1] \in Paths =>
          observed[2] \in {Absent, OldText} \cup TextsFor(observed[1])
====
